---------------------------- MODULE Spec2Model ----------------------------
(***************************************************************************)
(* Saidika: a Flask application in which registered users chat with a      *)
(* rule-based support bot, log moods, and an advisor page lists the        *)
(* messages that were flagged as crisis.                                   *)
(*                                                                         *)
(* Texts are sequences of one-character strings, so that case folding,     *)
(* stripping and substring search are computed character by character as   *)
(* Python computes them.  Rows of a table are the elements of a sequence;   *)
(* the primary key of a row is its index (SQLite hands out max(id)+1 and    *)
(* the application never deletes).                                         *)
(***************************************************************************)
EXTENDS Integers, Sequences, FiniteSets, TLC

VARIABLES
    users,      \* table User:  <<[email, password]>>
    moods,      \* table Mood:  <<[mood, time, user_id]>>
    chats,      \* table Chat:  <<[sender, text, time, user_id]>>
    alerts,     \* table Alert: <<[risk, message, time, user_id]>>
    session,    \* session[c]: the "user" key of the session cookie of browser c, NoUser when absent
    now,        \* the wall clock as datetime.now().strftime("%Y-%m-%d %H:%M:%S") shows it, in seconds
    sub,        \* the chat POSTs admitted so far, with the locals of chat() for each
    resp,       \* the response to the request handled last: "200" for a rendered page,
                \* "404", or the endpoint of a redirect
    din,        \* argument of a direct call of detect_emotion
    dout        \* its result, Unset before the call

vars == <<users, moods, chats, alerts, session, now, sub, resp, din, dout>>

-----------------------------------------------------------------------------
(* Bounds *)

MaxFrags == 2       \* fragments per text handed to detect_emotion
MaxUsers == 2       \* rows of User
MaxMoods == 1       \* rows of Mood
MaxSubmits == 1     \* chat POSTs with a non-empty message, every route in use
MaxChatSubmits == 1 \* chat POSTs with a non-empty message, one browser chatting
MaxPairSubmits == 2 \* chat POSTs with a non-empty message, one browser, overlapping
MaxTime == 1        \* last second of the clock

-----------------------------------------------------------------------------
(* Strings *)

Upper == <<"A","B","C","D","E","F","G","H","I","J","K","L","M",
           "N","O","P","Q","R","S","T","U","V","W","X","Y","Z">>
LowerLetters == <<"a","b","c","d","e","f","g","h","i","j","k","l","m",
                  "n","o","p","q","r","s","t","u","v","w","x","y","z">>

Whitespace == {" ", "\t", "\n"}

\* Python's None where a text is expected: a one-cell value that no text
\* equals, every cell of a text being a single character.
None == <<"None">>

LowerChar(ch) ==
    IF \E i \in 1..Len(Upper) : Upper[i] = ch
    THEN LowerLetters[CHOOSE i \in 1..Len(Upper) : Upper[i] = ch]
    ELSE ch

\* str.lower()
Lower(s) == [i \in 1..Len(s) |-> LowerChar(s[i])]

\* str.strip(): drop leading and trailing whitespace
RECURSIVE LStrip(_)
LStrip(s) ==
    IF s # <<>> /\ Head(s) \in Whitespace THEN LStrip(Tail(s)) ELSE s

RECURSIVE RStrip(_)
RStrip(s) ==
    IF s # <<>> /\ s[Len(s)] \in Whitespace
    THEN RStrip(SubSeq(s, 1, Len(s) - 1))
    ELSE s

Strip(s) == RStrip(LStrip(s))

\* w in t
Contains(w, t) ==
    \E i \in 0..(Len(t) - Len(w)) : SubSeq(t, i + 1, i + Len(w)) = w

\* any(w in text for w in words)
AnyIn(words, t) == \E k \in 1..Len(words) : Contains(words[k], t)

-----------------------------------------------------------------------------
(* detect_emotion *)

happy_words ==
    << <<"h","a","p","p","y">>,
       <<"g","r","e","a","t">>,
       <<"g","o","o","d">>,
       <<"e","x","c","i","t","e","d">>,
       <<"j","o","y">>,
       <<"a","w","e","s","o","m","e">> >>

sad_words ==
    << <<"s","a","d">>,
       <<"u","n","h","a","p","p","y">>,
       <<"d","o","w","n">>,
       <<"d","e","p","r","e","s","s","e","d">>,
       <<"c","r","y">>,
       <<"h","u","r","t">> >>

anxious_words ==
    << <<"a","n","x","i","o","u","s">>,
       <<"w","o","r","r","i","e","d">>,
       <<"s","c","a","r","e","d">>,
       <<"n","e","r","v","o","u","s">>,
       <<"p","a","n","i","c">> >>

angry_words ==
    << <<"a","n","g","r","y">>,
       <<"m","a","d">>,
       <<"f","r","u","s","t","r","a","t","e","d">>,
       <<"a","n","n","o","y","e","d">> >>

hopeless_words ==
    << <<"h","o","p","e","l","e","s","s">>,
       <<"t","i","r","e","d"," ","o","f"," ","l","i","f","e">>,
       <<"g","i","v","e"," ","u","p">>,
       <<"c","a","n","'","t"," ","g","o"," ","o","n">>,
       <<"s","u","i","c","i","d","e">>,
       <<"k","i","l","l"," ","m","y","s","e","l","f">>,
       <<"e","n","d"," ","m","y"," ","l","i","f","e">>,
       <<"d","i","e">> >>

\* a plausible slip: the sad list is consulted before the happy list
detect_emotion_sad_first(text) ==
    LET t == Lower(IF text = None \/ text = <<>> THEN <<>> ELSE text)
    IN  IF AnyIn(sad_words, t) THEN "sad"
        ELSE IF AnyIn(happy_words, t) THEN "happy"
        ELSE IF AnyIn(anxious_words, t) THEN "anxious"
        ELSE IF AnyIn(angry_words, t) THEN "angry"
        ELSE IF AnyIn(hopeless_words, t) THEN "crisis"
        ELSE "neutral"

detect_emotion(text) ==
    LET t == Lower(IF text = None \/ text = <<>> THEN <<>> ELSE text)
    IN  IF AnyIn(happy_words, t) THEN "happy"
        ELSE IF AnyIn(sad_words, t) THEN "sad"
        ELSE IF AnyIn(anxious_words, t) THEN "anxious"
        ELSE IF AnyIn(angry_words, t) THEN "angry"
        ELSE IF AnyIn(hopeless_words, t) THEN "crisis"
        ELSE "neutral"

-----------------------------------------------------------------------------
(* Passwords, timestamps, rows *)

NoUser == 0
Unset == "unset"

\* the browsers, each with its own session cookie
Clients == {1}

\* bcrypt.generate_password_hash(password).decode("utf-8")
generate_password_hash(password) == [alg |-> "bcrypt", of |-> password]

\* bcrypt.check_password_hash(pw_hash, password)
check_password_hash(pw_hash, password) ==
    pw_hash.alg = "bcrypt" /\ pw_hash.of = password

\* User.query.filter_by(email=email).first(): the id of the row, NoUser for None
UserByEmail(email) ==
    IF \E i \in 1..Len(users) : users[i].email = email
    THEN CHOOSE i \in 1..Len(users) :
            /\ users[i].email = email
            /\ \A j \in 1..(i - 1) : users[j].email # email
    ELSE NoUser

\* Chat.query.filter_by(user_id=user_id).order_by(Chat.id.asc()).all()
ChatHistory(user_id) == SelectSeq(chats, LAMBDA m : m.user_id = user_id)

\* a plausible slip: the alert stores the case-folded text t
NewAlert_folded(user_id, user_msg, ts) ==
    [risk |-> "High", message |-> Lower(user_msg), time |-> ts, user_id |-> user_id]

\* a plausible slip: the alert is filed under a lower risk
NewAlert_moderate(user_id, user_msg, ts) ==
    [risk |-> "Moderate", message |-> user_msg, time |-> ts, user_id |-> user_id]

\* Alert(user_id=user_id, risk="High", message=user_msg, time=ts)
NewAlert(user_id, user_msg, ts) ==
    [risk |-> "High", message |-> user_msg, time |-> ts, user_id |-> user_id]

\* Chat(user_id=user_id, sender=sender, text=text, time=time)
NewChat(user_id, sender, text, time) ==
    [sender |-> sender, text |-> text, time |-> time, user_id |-> user_id]

-----------------------------------------------------------------------------
(* The replies of chat() *)

HelpReply == "Of course, I'm here to help you. What's worrying you the most right now?"
NotOkayReply == "I'm really sorry you're feeling this way. You're not alone - tell me more."
AloneReply == "Feeling alone can be heavy. I'm here with you - you don't have to carry this alone."
SafetyReply == "I'm very concerned about your safety. If you feel in danger or are thinking about harming yourself, please contact emergency services or a hotline. You deserve care and safety."
HappyReply == "That's wonderful! What made you feel good today?"
SadReply == "I'm sorry you're feeling low. Want to talk about it?"
AnxiousReply == "Anxiety can be overwhelming. What's worrying you?"
AngryReply == "Your feelings are valid. What triggered the anger?"
NeutralReply == "I'm here with you. Tell me more when you're ready."
FallbackReply == "I'm here with you. Tell me more."

w_help == <<"h","e","l","p">>
w_assist == <<"a","s","s","i","s","t">>
w_support == <<"s","u","p","p","o","r","t">>
w_not_okay == <<"n","o","t"," ","o","k","a","y">>
w_hurt == <<"h","u","r","t">>
w_pain == <<"p","a","i","n">>
w_alone == <<"a","l","o","n","e">>
w_lonely == <<"l","o","n","e","l","y">>

\* responses.get(emotion, "I'm here with you. Tell me more.")
responses(emotion) ==
    CASE emotion = "happy" -> HappyReply
      [] emotion = "sad" -> SadReply
      [] emotion = "anxious" -> AnxiousReply
      [] emotion = "angry" -> AngryReply
      [] emotion = "neutral" -> NeutralReply
      [] OTHER -> FallbackReply

\* a plausible slip: the crisis test is placed before the phrase tests
SelectReply_crisis_first(user_msg) ==
    LET emotion == detect_emotion(user_msg)
        t == Lower(user_msg)
    IN  IF emotion = "crisis"
        THEN [emotion |-> emotion, bot_reply |-> SafetyReply, alert |-> TRUE]
        ELSE IF Contains(w_help, t) \/ Contains(w_assist, t) \/ Contains(w_support, t)
        THEN [emotion |-> emotion, bot_reply |-> HelpReply, alert |-> FALSE]
        ELSE IF Contains(w_not_okay, t) \/ Contains(w_hurt, t) \/ Contains(w_pain, t)
        THEN [emotion |-> emotion, bot_reply |-> NotOkayReply, alert |-> FALSE]
        ELSE IF Contains(w_alone, t) \/ Contains(w_lonely, t)
        THEN [emotion |-> emotion, bot_reply |-> AloneReply, alert |-> FALSE]
        ELSE [emotion |-> emotion, bot_reply |-> responses(emotion), alert |-> FALSE]

\* a plausible slip: "hurt" is left out of the second phrase test
SelectReply_no_hurt(user_msg) ==
    LET emotion == detect_emotion(user_msg)
        t == Lower(user_msg)
    IN  IF Contains(w_help, t) \/ Contains(w_assist, t) \/ Contains(w_support, t)
        THEN [emotion |-> emotion, bot_reply |-> HelpReply, alert |-> FALSE]
        ELSE IF Contains(w_not_okay, t) \/ Contains(w_pain, t)
        THEN [emotion |-> emotion, bot_reply |-> NotOkayReply, alert |-> FALSE]
        ELSE IF Contains(w_alone, t) \/ Contains(w_lonely, t)
        THEN [emotion |-> emotion, bot_reply |-> AloneReply, alert |-> FALSE]
        ELSE IF emotion = "crisis"
        THEN [emotion |-> emotion, bot_reply |-> SafetyReply, alert |-> TRUE]
        ELSE [emotion |-> emotion, bot_reply |-> responses(emotion), alert |-> FALSE]

\* a plausible slip: the companionship branch also raises an alert
SelectReply_alert_on_alone(user_msg) ==
    LET emotion == detect_emotion(user_msg)
        t == Lower(user_msg)
    IN  IF Contains(w_help, t) \/ Contains(w_assist, t) \/ Contains(w_support, t)
        THEN [emotion |-> emotion, bot_reply |-> HelpReply, alert |-> FALSE]
        ELSE IF Contains(w_not_okay, t) \/ Contains(w_hurt, t) \/ Contains(w_pain, t)
        THEN [emotion |-> emotion, bot_reply |-> NotOkayReply, alert |-> FALSE]
        ELSE IF Contains(w_alone, t) \/ Contains(w_lonely, t)
        THEN [emotion |-> emotion, bot_reply |-> AloneReply, alert |-> TRUE]
        ELSE IF emotion = "crisis"
        THEN [emotion |-> emotion, bot_reply |-> SafetyReply, alert |-> TRUE]
        ELSE [emotion |-> emotion, bot_reply |-> responses(emotion), alert |-> FALSE]

\* a plausible slip: the crisis branch replies but saves no alert
SelectReply_no_alert(user_msg) ==
    LET emotion == detect_emotion(user_msg)
        t == Lower(user_msg)
    IN  IF Contains(w_help, t) \/ Contains(w_assist, t) \/ Contains(w_support, t)
        THEN [emotion |-> emotion, bot_reply |-> HelpReply, alert |-> FALSE]
        ELSE IF Contains(w_not_okay, t) \/ Contains(w_hurt, t) \/ Contains(w_pain, t)
        THEN [emotion |-> emotion, bot_reply |-> NotOkayReply, alert |-> FALSE]
        ELSE IF Contains(w_alone, t) \/ Contains(w_lonely, t)
        THEN [emotion |-> emotion, bot_reply |-> AloneReply, alert |-> FALSE]
        ELSE IF emotion = "crisis"
        THEN [emotion |-> emotion, bot_reply |-> SafetyReply, alert |-> FALSE]
        ELSE [emotion |-> emotion, bot_reply |-> responses(emotion), alert |-> FALSE]

\* chat(), from "emotion = detect_emotion(user_msg)" to the end of the
\* if/elif chain: the locals emotion and bot_reply, and whether the branch
\* taken saves an Alert
SelectReply(user_msg) ==
    LET emotion == detect_emotion(user_msg)
        t == Lower(user_msg)
    IN  IF Contains(w_help, t) \/ Contains(w_assist, t) \/ Contains(w_support, t)
        THEN [emotion |-> emotion, bot_reply |-> HelpReply, alert |-> FALSE]
        ELSE IF Contains(w_not_okay, t) \/ Contains(w_hurt, t) \/ Contains(w_pain, t)
        THEN [emotion |-> emotion, bot_reply |-> NotOkayReply, alert |-> FALSE]
        ELSE IF Contains(w_alone, t) \/ Contains(w_lonely, t)
        THEN [emotion |-> emotion, bot_reply |-> AloneReply, alert |-> FALSE]
        ELSE IF emotion = "crisis"
        THEN [emotion |-> emotion, bot_reply |-> SafetyReply, alert |-> TRUE]
        ELSE [emotion |-> emotion, bot_reply |-> responses(emotion), alert |-> FALSE]

-----------------------------------------------------------------------------
(* Requests *)

Methods == {"GET", "POST"}
Emails == { <<"a">>, <<" ","a">>, <<"b">> }
Passwords == {"p", "q"}
RegisterForms ==
    { [email |-> <<" ","a">>, password |-> "p"],
      [email |-> <<"a">>, password |-> "p"],
      [email |-> <<"b">>, password |-> "q"] }
MoodInputs == {"", "Happy"}

\* request.form "message" of the chat page, every route in use
AppMessages ==
    { <<" ">>, <<" ","D","i","e">>, <<"o","k">> }

\* request.form "message" of the chat page, one browser, overlapping requests
PairMessages ==
    { <<" ","D","i","e">>, <<"d","i","e"," ","a","l","o","n","e">> }

\* request.form "message" of the chat page, one browser chatting
ChatMessages ==
    { <<" ">>,
      <<" ","D","i","e">>,
      <<"h","e","l","p"," ","d","i","e">>,
      <<"d","i","e"," ","a","l","o","n","e">>,
      <<"h","u","r","t">>,
      <<"H","e","l","p"," ","h","u","r","t">>,
      <<"l","o","n","e","l","y">>,
      <<"h","a","p","p","y">>,
      <<"s","a","d">>,
      <<"p","a","n","i","c">>,
      <<"m","a","d">>,
      <<"o","k">> }

AppInit ==
    /\ users = <<>>
    /\ moods = <<>>
    /\ chats = <<>>
    /\ alerts = <<>>
    /\ session = [c \in Clients |-> NoUser]
    /\ now = 0
    /\ sub = <<>>
    /\ resp = "none"


\* a plausible slip: the decorator lets a request without "user" through
login_required_open(c, fn) == fn

\* login_required: a request whose session has no "user" is redirected
login_required(c, fn) ==
    IF session[c] = NoUser
    THEN /\ resp' = "login"
         /\ UNCHANGED <<users, moods, chats, alerts, session, now, sub>>
    ELSE fn

\* the wall clock advances
Tick ==
    /\ now < MaxTime
    /\ now' = now + 1
    /\ UNCHANGED <<users, moods, chats, alerts, session, sub, resp, din, dout>>

\* GET /
Root ==
    /\ resp' = "login"
    /\ UNCHANGED <<users, moods, chats, alerts, session, now, sub, din, dout>>

\* GET, POST /register
Register(method, email_field, password) ==
    /\ IF method = "POST"
       THEN LET email == Strip(email_field)
                existing == UserByEmail(email)
            IN  IF existing # NoUser
                THEN /\ resp' = "200"
                     /\ UNCHANGED users
                ELSE /\ users' = Append(users,
                            [email |-> email,
                             password |-> generate_password_hash(password)])
                     /\ resp' = "login"
       ELSE /\ resp' = "200"
            /\ UNCHANGED users
    /\ UNCHANGED <<moods, chats, alerts, session, now, sub, din, dout>>

\* a plausible slip: "clear the chat shown" at login deletes the user's Chat rows
Login_clears_history(c, method, email_field, password) ==
    /\ IF method = "POST"
       THEN LET email == Strip(email_field)
                user == UserByEmail(email)
            IN  IF user # NoUser /\ check_password_hash(users[user].password, password)
                THEN /\ session' = [session EXCEPT ![c] = user]
                     /\ chats' = SelectSeq(chats, LAMBDA m : m.user_id # user)
                     /\ resp' = "home"
                ELSE /\ resp' = "200"
                     /\ UNCHANGED <<session, chats>>
       ELSE /\ resp' = "200"
            /\ UNCHANGED <<session, chats>>
    /\ UNCHANGED <<users, moods, alerts, now, sub, din, dout>>

\* GET, POST /login; the session key "chat_ui" that login and logout pop is
\* written nowhere and is left out
Login(c, method, email_field, password) ==
    /\ IF method = "POST"
       THEN LET email == Strip(email_field)
                user == UserByEmail(email)
            IN  IF user # NoUser /\ check_password_hash(users[user].password, password)
                THEN /\ session' = [session EXCEPT ![c] = user]
                     /\ resp' = "home"
                ELSE /\ resp' = "200"
                     /\ UNCHANGED session
       ELSE /\ resp' = "200"
            /\ UNCHANGED session
    /\ UNCHANGED <<users, moods, chats, alerts, now, sub, din, dout>>

\* GET /logout
Logout(c) ==
    /\ session' = [session EXCEPT ![c] = NoUser]
    /\ resp' = "login"
    /\ UNCHANGED <<users, moods, chats, alerts, now, sub, din, dout>>

\* GET /home
Home(c) ==
    /\ login_required(c,
          /\ resp' = "200"
          /\ UNCHANGED <<users, moods, chats, alerts, session, now, sub>>)
    /\ UNCHANGED <<din, dout>>

\* GET, POST /chat, up to ts = datetime.now(); a GET, and a POST whose message
\* is empty once stripped, render the page at once
ChatStart(c, method, message) ==
    /\ login_required(c,
          LET user_id == session[c]
              user_msg == Strip(message)
          IN  IF method = "POST" /\ user_msg # <<>>
              THEN /\ sub' = Append(sub,
                         [client |-> c, pc |-> "save_user",
                          user_id |-> user_id, user_msg |-> user_msg,
                          ts |-> now, emotion |-> Unset,
                          bot_reply |-> Unset, ts2 |-> -1,
                          uturn |-> 0, alert |-> 0, bturn |-> 0])
                   /\ UNCHANGED <<users, moods, chats, alerts, session, now, resp>>
              ELSE /\ resp' = "200"
                   /\ UNCHANGED <<users, moods, chats, alerts, session, now, sub>>)
    /\ UNCHANGED <<din, dout>>

\* chat(): the user's turn is added and committed
ChatSaveUser(s) ==
    /\ sub[s].pc = "save_user"
    /\ chats' = Append(chats,
          NewChat(sub[s].user_id, "user", sub[s].user_msg, sub[s].ts))
    /\ sub' = [sub EXCEPT ![s].pc = "respond", ![s].uturn = Len(chats) + 1]
    /\ UNCHANGED <<users, moods, alerts, session, now, resp, din, dout>>

\* chat(): the emotion, the reply, and in the crisis branch the Alert, committed
ChatRespond(s) ==
    /\ sub[s].pc = "respond"
    /\ LET r == SelectReply(sub[s].user_msg)
       IN  /\ alerts' = IF r.alert
                        THEN Append(alerts,
                               NewAlert(sub[s].user_id, sub[s].user_msg, sub[s].ts))
                        ELSE alerts
           /\ sub' = [sub EXCEPT ![s].pc = "stamp",
                                 ![s].emotion = r.emotion,
                                 ![s].bot_reply = r.bot_reply,
                                 ![s].alert = IF r.alert THEN Len(alerts) + 1 ELSE 0]
    /\ UNCHANGED <<users, moods, chats, session, now, resp, din, dout>>

\* chat(): ts2 = datetime.now()
ChatStampBot(s) ==
    /\ sub[s].pc = "stamp"
    /\ sub' = [sub EXCEPT ![s].pc = "save_bot", ![s].ts2 = now]
    /\ UNCHANGED <<users, moods, chats, alerts, session, now, resp, din, dout>>

\* chat(): the bot's turn is added and committed, the page rendered
ChatSaveBot(s) ==
    /\ sub[s].pc = "save_bot"
    /\ chats' = Append(chats,
          NewChat(sub[s].user_id, "bot", sub[s].bot_reply, sub[s].ts2))
    /\ sub' = [sub EXCEPT ![s].pc = "done", ![s].bturn = Len(chats) + 1]
    /\ resp' = "200"
    /\ UNCHANGED <<users, moods, alerts, session, now, din, dout>>

\* GET, POST /tracker
Tracker(c, method, mood) ==
    /\ login_required(c,
          LET user_id == session[c]
          IN  /\ IF method = "POST" /\ mood # ""
                 THEN /\ moods' = Append(moods,
                            [mood |-> mood, time |-> now,
                             user_id |-> user_id])
                 ELSE UNCHANGED moods
              /\ resp' = "200"
              /\ UNCHANGED <<users, chats, alerts, session, now, sub>>)
    /\ UNCHANGED <<din, dout>>

\* GET /advisor
Advisor(c) ==
    /\ login_required(c,
          /\ resp' = "200"
          /\ UNCHANGED <<users, moods, chats, alerts, session, now, sub>>)
    /\ UNCHANGED <<din, dout>>

\* GET /therapist/<user_id>
Therapist(c, user_id) ==
    /\ login_required(c,
          /\ resp' = IF user_id \in 1..Len(users) THEN "200" ELSE "404"
          /\ UNCHANGED <<users, moods, chats, alerts, session, now, sub>>)
    /\ UNCHANGED <<din, dout>>

\* GET /report
Report(c) ==
    /\ login_required(c,
          /\ resp' = "200"
          /\ UNCHANGED <<users, moods, chats, alerts, session, now, sub>>)
    /\ UNCHANGED <<din, dout>>

Init ==
    /\ AppInit
    /\ din = None
    /\ dout = Unset

\* every route, the requests answered within one second of the clock
Next ==
    \/ Root
    \/ \E m \in Methods, f \in RegisterForms :
          /\ Len(users) < MaxUsers
          /\ Register(m, f.email, f.password)
    \/ \E c \in Clients, m \in Methods, e \in Emails, p \in Passwords : Login(c, m, e, p)
    \/ \E c \in Clients : Logout(c)
    \/ \E c \in Clients : Home(c)
    \/ \E c \in Clients, m \in Methods, t \in AppMessages :
          /\ Len(sub) < MaxSubmits \/ m = "GET"
          /\ ChatStart(c, m, t)
    \/ \E s \in 1..Len(sub) : ChatSaveUser(s)
    \/ \E s \in 1..Len(sub) : ChatRespond(s)
    \/ \E s \in 1..Len(sub) : ChatStampBot(s)
    \/ \E s \in 1..Len(sub) : ChatSaveBot(s)
    \/ \E c \in Clients, m \in Methods, d \in MoodInputs :
          /\ Len(moods) < MaxMoods \/ m = "GET"
          /\ Tracker(c, m, d)
    \/ \E c \in Clients : Advisor(c)
    \/ \E c \in Clients, u \in 1..(MaxUsers + 1) : Therapist(c, u)
    \/ \E c \in Clients : Report(c)

Spec == Init /\ [][Next]_vars

\* one browser registers, logs in and chats; its requests may overlap
ChatNext(messages, submits) ==
    \/ Tick
    \/ \E f \in RegisterForms :
          /\ Len(users) < 1
          /\ Register("POST", f.email, f.password)
    \/ \E e \in Emails, p \in Passwords : Login(1, "POST", e, p)
    \/ \E m \in Methods, t \in messages :
          /\ Len(sub) < submits \/ m = "GET"
          /\ ChatStart(1, m, t)
    \/ \E s \in 1..Len(sub) : ChatSaveUser(s)
    \/ \E s \in 1..Len(sub) : ChatRespond(s)
    \/ \E s \in 1..Len(sub) : ChatStampBot(s)
    \/ \E s \in 1..Len(sub) : ChatSaveBot(s)

NextChat == ChatNext(ChatMessages, MaxChatSubmits)

SpecChat == Init /\ [][NextChat]_vars

NextPair == ChatNext(PairMessages, MaxPairSubmits)

SpecPair == Init /\ [][NextPair]_vars

-----------------------------------------------------------------------------
(* Direct calls of detect_emotion *)

Fragments ==
    { <<"h","a","p","p","y">>, <<"H","A","P","P","Y">>, <<"u","n">>,
      <<"s","a","d">>, <<"h","u","r","t">>, <<"f","u","l">>,
      <<"p","a","n","i","c">>, <<"m","a">>, <<"d">>, <<"D","i","e">>,
      <<"t">>, <<"g","i","v","e"," ">>, <<" ">>, <<"u","p">>,
      <<"h","e","l","p">> }

\* the texts made of at most n fragments
RECURSIVE TextsOf(_)
TextsOf(n) ==
    IF n = 0 THEN { <<>> }
    ELSE LET shorter == TextsOf(n - 1)
         IN  shorter \cup { t \o f : t \in shorter, f \in Fragments }

DetectInputs == TextsOf(MaxFrags) \cup { None }

InitDetect ==
    /\ AppInit
    /\ din \in DetectInputs
    /\ dout = Unset

Detect ==
    /\ dout = Unset
    /\ dout' = detect_emotion(din)
    /\ UNCHANGED <<din, users, moods, chats, alerts, session, now, sub, resp>>

NextDetect == Detect

SpecDetect == InitDetect /\ [][NextDetect]_vars

-----------------------------------------------------------------------------
(* Reference definitions for the properties *)

Labels == {"happy", "sad", "anxious", "angry", "crisis", "neutral"}

Range(f) == { f[i] : i \in DOMAIN f }

Min(S) == CHOOSE x \in S : \A y \in S : x <= y

\* w occurs in t: at some offset a the characters of t are those of w
Occurs(w, t) ==
    \E a \in 0..Len(t) :
        /\ a + Len(w) <= Len(t)
        /\ \A i \in 1..Len(w) : t[a + i] = w[i]

\* the keyword sets in their priority order
KeywordSets ==
    << [label |-> "happy", words |-> Range(happy_words)],
       [label |-> "sad", words |-> Range(sad_words)],
       [label |-> "anxious", words |-> Range(anxious_words)],
       [label |-> "angry", words |-> Range(angry_words)],
       [label |-> "crisis", words |-> Range(hopeless_words)] >>

\* the label of the first keyword set with a keyword in the folded text
RefLabel(text) ==
    LET t == IF text = None THEN <<>> ELSE Lower(text)
        hits == { k \in 1..Len(KeywordSets) :
                    \E w \in KeywordSets[k].words : Occurs(w, t) }
    IN  IF hits = {} THEN "neutral" ELSE KeywordSets[Min(hits)].label

HelpPhrases == {w_help, w_assist, w_support}
NotOkayPhrases == {w_not_okay, w_hurt, w_pain}
AlonePhrases == {w_alone, w_lonely}
OverridePhrases == HelpPhrases \cup NotOkayPhrases \cup AlonePhrases

HasAny(phrases, text) == \E w \in phrases : Occurs(w, Lower(text))

\* the branch of the cascade a message and its label take
RefBranch(text, label) ==
    Min( (IF HasAny(HelpPhrases, text) THEN {1} ELSE {})
         \cup (IF HasAny(NotOkayPhrases, text) THEN {2} ELSE {})
         \cup (IF HasAny(AlonePhrases, text) THEN {3} ELSE {})
         \cup (IF label = "crisis" THEN {4} ELSE {})
         \cup {5} )

CannedReplies ==
    [l \in {"happy", "sad", "anxious", "angry", "neutral"} |->
        IF l = "happy" THEN HappyReply
        ELSE IF l = "sad" THEN SadReply
        ELSE IF l = "anxious" THEN AnxiousReply
        ELSE IF l = "angry" THEN AngryReply
        ELSE NeutralReply]

RefReply(text, label) ==
    LET b == RefBranch(text, label)
    IN  IF b <= 4
        THEN <<HelpReply, NotOkayReply, AloneReply, SafetyReply>>[b]
        ELSE IF label \in DOMAIN CannedReplies
             THEN CannedReplies[label]
             ELSE FallbackReply

\* The reference definitions, tabulated once over the texts that the chat
\* requests carry.
MessageTexts ==
    { Strip(m) : m \in AppMessages \cup PairMessages \cup ChatMessages } \ { <<>> }

OverrideIn == [t \in MessageTexts |-> HasAny(OverridePhrases, t)]
HelpIn == [t \in MessageTexts |-> Occurs(w_help, Lower(t))]
HurtIn == [t \in MessageTexts |-> Occurs(w_hurt, Lower(t))]
HelpPhraseIn == [t \in MessageTexts |-> HasAny(HelpPhrases, t)]
RefBranchOf == [t \in MessageTexts |-> [l \in Labels |-> RefBranch(t, l)]]
RefReplyOf == [t \in MessageTexts |-> [l \in Labels |-> RefReply(t, l)]]

\* the if/elif chain of submission s has run
Replied(s) == sub[s].pc \in {"stamp", "save_bot", "done"}

\* the Alert row that submission s is due
AlertOf(s) ==
    [risk |-> "High", message |-> sub[s].user_msg,
     time |-> sub[s].ts, user_id |-> sub[s].user_id]

IsPrefix(p, q) == Len(p) <= Len(q) /\ SubSeq(q, 1, Len(p)) = p

-----------------------------------------------------------------------------
(* C1: for every text, the empty text and None included, detect_emotion     *)
(* returns one of the six labels: the label of the first keyword set, in    *)
(* the order happy, sad, anxious, angry, crisis, that has a keyword          *)
(* occurring in the case-folded text, and neutral when no set has one.  A    *)
(* text with a happy keyword is happy whatever else it holds; "" and None   *)
(* are neutral.                                                            *)
C1_DetectEmotion ==
    dout # Unset =>
        /\ dout \in Labels
        /\ dout = RefLabel(din)
        /\ (din \in {<<>>, None} => dout = "neutral")
        /\ (din # None /\ (\E w \in Range(happy_words) : Occurs(w, Lower(din)))
               => dout = "happy")

C1_Witness ==
    /\ dout = "happy"
    /\ din # None
    /\ \E w \in Range(sad_words) : Occurs(w, Lower(din))

-----------------------------------------------------------------------------
(* C2: a submitted message that is labelled crisis and holds none of the    *)
(* override phrases gets the safety-concern reply, and exactly one Alert is *)
(* saved for the submission: risk "High", the submitted text, the           *)
(* submitting user, the timestamp of the submission.                        *)
C2_CrisisRaisesAlert ==
    \A s \in 1..Len(sub) :
        (/\ Replied(s)
         /\ sub[s].emotion = "crisis"
         /\ ~OverrideIn[sub[s].user_msg])
        => /\ sub[s].bot_reply = SafetyReply
           /\ sub[s].alert \in 1..Len(alerts)
           /\ alerts[sub[s].alert] = AlertOf(s)
           /\ Cardinality({ a \in 1..Len(alerts) : alerts[a] = AlertOf(s) })
                = Cardinality({ r \in 1..Len(sub) : Replied(r) /\ AlertOf(r) = AlertOf(s) })

C2_Witness ==
    \E s \in 1..Len(sub) :
        /\ Replied(s)
        /\ sub[s].emotion = "crisis"
        /\ ~OverrideIn[sub[s].user_msg]
        /\ sub[s].user_msg # Lower(sub[s].user_msg)
        /\ Len(alerts) = 1

(* C3: a submitted message that contains "help" gets the help-offer reply   *)
(* whatever its label, crisis included, and no Alert is saved for it.       *)
C3_HelpOverrides ==
    \A s \in 1..Len(sub) :
        (Replied(s) /\ HelpIn[sub[s].user_msg])
        => /\ sub[s].bot_reply = HelpReply
           /\ sub[s].alert = 0
           /\ \A a \in 1..Len(alerts) : alerts[a].message # sub[s].user_msg

C3_Witness ==
    \E s \in 1..Len(sub) :
        /\ sub[s].pc = "done"
        /\ sub[s].emotion = "crisis"
        /\ HelpIn[sub[s].user_msg]
        /\ alerts = <<>>

(* C4: the reply is the one of the reference cascade, first match wins:     *)
(* help/assist/support, then not okay/hurt/pain, then alone/lonely, then    *)
(* the crisis label, then the canned reply of the label.  A message with    *)
(* "hurt" never gets the sad canned reply, and gets the empathetic reply    *)
(* when no phrase of the first branch is in it.                             *)
C4_ReplyCascade ==
    \A s \in 1..Len(sub) :
        Replied(s)
        => /\ sub[s].bot_reply = RefReplyOf[sub[s].user_msg][sub[s].emotion]
           /\ (HurtIn[sub[s].user_msg]
                 => /\ sub[s].bot_reply # SadReply
                    /\ (~HelpPhraseIn[sub[s].user_msg]
                          => sub[s].bot_reply = NotOkayReply))

C4_Witness ==
    \E s \in 1..Len(sub) :
        /\ Replied(s)
        /\ HurtIn[sub[s].user_msg]
        /\ sub[s].emotion = "sad"
        /\ sub[s].bot_reply = NotOkayReply

(* C5: a submission saves at most one Alert, and saves one only in branch 4 *)
(* (no override phrase, label crisis); the number of Alert rows is the      *)
(* number of submissions that took branch 4.                                *)
C5_AlertsCountBranch4 ==
    /\ Len(alerts) = Cardinality({ s \in 1..Len(sub) :
            /\ Replied(s)
            /\ RefBranchOf[sub[s].user_msg][sub[s].emotion] = 4 })
    /\ \A s \in 1..Len(sub) :
          sub[s].alert # 0
          => /\ Replied(s)
             /\ RefBranchOf[sub[s].user_msg][sub[s].emotion] = 4
             /\ \A r \in 1..Len(sub) : r # s => sub[r].alert # sub[s].alert

C5_Witness ==
    \E s \in 1..Len(sub) :
        /\ sub[s].pc = "done"
        /\ RefBranchOf[sub[s].user_msg][sub[s].emotion] = 4
        /\ Len(alerts) = 1
        /\ Len(chats) = 2

(* C6 as written: whenever the chat handler processes a message that        *)
(* detect_emotion labels crisis, an Alert for that message is saved.        *)
C6_CrisisAlwaysAlerts ==
    \A s \in 1..Len(sub) :
        (Replied(s) /\ sub[s].emotion = "crisis")
        => \E a \in 1..Len(alerts) :
              /\ alerts[a].message = sub[s].user_msg
              /\ alerts[a].user_id = sub[s].user_id

(* C6, amended: whenever the chat handler processes a message that          *)
(* detect_emotion labels crisis and that holds none of the override         *)
(* phrases, an Alert for that message is saved.                             *)
C6_CrisisAlertsUnlessOverride ==
    \A s \in 1..Len(sub) :
        (/\ Replied(s)
         /\ sub[s].emotion = "crisis"
         /\ ~OverrideIn[sub[s].user_msg])
        => \E a \in 1..Len(alerts) :
              /\ alerts[a].message = sub[s].user_msg
              /\ alerts[a].user_id = sub[s].user_id

C6_Witness ==
    \E s \in 1..Len(sub) :
        /\ sub[s].pc = "done"
        /\ sub[s].emotion = "crisis"
        /\ ~OverrideIn[sub[s].user_msg]
        /\ \E a \in 1..Len(alerts) : alerts[a].time < chats[sub[s].bturn].time

(* C7: every Alert has risk "High", a message that detect_emotion labels    *)
(* crisis, and a ChatTurn of the user with the same user_id, text and time. *)
C7_AlertsAreOwnedCrisisTurns ==
    \A a \in 1..Len(alerts) :
        /\ alerts[a].risk = "High"
        /\ RefLabel(alerts[a].message) = "crisis"
        /\ alerts[a].user_id \in 1..Len(users)
        /\ \E i \in 1..Len(chats) :
              /\ chats[i].sender = "user"
              /\ chats[i].user_id = alerts[a].user_id
              /\ chats[i].text = alerts[a].message
              /\ chats[i].time = alerts[a].time

C7_Witness ==
    /\ Len(alerts) = 1
    /\ Len(chats) = 2
    /\ alerts[1].time = 1
    /\ alerts[1].message # Lower(alerts[1].message)

(* C8: every chat interaction leaves one pair, the user's turn and then the *)
(* bot's; read in id order the turns of a user are in chronological order   *)
(* and each user turn is followed at once by its own reply, also when two   *)
(* chat requests of the user overlap.                                       *)
C8_PairsInOrder ==
    /\ \A u \in 1..Len(users) :
          LET h == ChatHistory(u)
          IN  \A i \in 1..Len(h), j \in 1..Len(h) :
                 i < j => h[i].time <= h[j].time
    /\ \A s \in 1..Len(sub) :
          sub[s].pc = "done"
          => /\ sub[s].uturn < sub[s].bturn
             /\ \A k \in 1..Len(chats) :
                   (sub[s].uturn < k /\ k < sub[s].bturn)
                   => chats[k].user_id # sub[s].user_id

-----------------------------------------------------------------------------
(* C9: no operation changes or removes an existing Alert or ChatTurn: both  *)
(* tables only grow, only a step of a chat POST with a non-empty message    *)
(* adds to them, and the advisor page and a GET of the chat page leave all  *)
(* tables as they are.                                                     *)
C9_RecordsImmutable ==
    [][ /\ IsPrefix(chats, chats')
        /\ IsPrefix(alerts, alerts')
        /\ (chats' # chats \/ alerts' # alerts)
             => \E s \in 1..Len(sub) :
                   /\ sub[s].user_msg # <<>>
                   /\ sub[s].pc \in {"save_user", "respond", "save_bot"}
                   /\ sub'[s].pc # sub[s].pc
        /\ ((\E c \in Clients : Advisor(c))
              \/ (\E c \in Clients, t \in AppMessages : ChatStart(c, "GET", t)))
             => UNCHANGED <<users, moods, chats, alerts>>
      ]_vars

C9_Witness ==
    /\ Len(chats) = 2
    /\ Len(alerts) = 1
    /\ Len(moods) = 1
    /\ \A c \in Clients : session[c] = NoUser

-----------------------------------------------------------------------------
(* C10 *)

Protected(c) ==
    \/ Home(c)
    \/ \E m \in Methods, t \in AppMessages : ChatStart(c, m, t)
    \/ \E m \in Methods, d \in MoodInputs : Tracker(c, m, d)
    \/ Advisor(c)
    \/ \E u \in 1..(MaxUsers + 1) : Therapist(c, u)
    \/ Report(c)

\* a request to a protected route without "user" is redirected to login and
\* changes nothing that is persisted
GuardHolds ==
    \A c \in Clients :
        (session[c] = NoUser /\ Protected(c))
        => /\ resp' = "login"
           /\ UNCHANGED <<users, moods, chats, alerts, sub, session>>

\* "user" enters a session only by a login with the password of an existing
\* email, and leaves it only by logout
SessionHolds ==
    \A c \in Clients :
        /\ (session'[c] # session[c] /\ session'[c] = NoUser) => Logout(c)
        /\ (session'[c] # session[c] /\ session'[c] # NoUser)
             => \E e \in Emails, p \in Passwords :
                   /\ Login(c, "POST", e, p)
                   /\ session'[c] \in 1..Len(users)
                   /\ users[session'[c]].email = Strip(e)
                   /\ users[session'[c]].password = generate_password_hash(p)
        /\ Logout(c) => session'[c] = NoUser

\* a record carries the user_id that its session held when the request that
\* creates it was admitted
OwnerHolds ==
    /\ Len(sub') > Len(sub)
         => LET n == sub'[Len(sub')]
            IN  n.user_id # NoUser /\ n.user_id = session[n.client]
    /\ Len(moods') > Len(moods)
         => \E c \in Clients :
               session[c] # NoUser /\ moods'[Len(moods')].user_id = session[c]
    /\ Len(chats') > Len(chats)
         => \E s \in 1..Len(sub) :
               /\ sub'[s].pc # sub[s].pc
               /\ chats'[Len(chats')].user_id = sub[s].user_id
    /\ Len(alerts') > Len(alerts)
         => \E s \in 1..Len(sub) :
               /\ sub'[s].pc # sub[s].pc
               /\ alerts'[Len(alerts')].user_id = sub[s].user_id
    /\ \A i \in 1..Len(chats') : chats'[i].user_id \in 1..Len(users')
    /\ \A i \in 1..Len(alerts') : alerts'[i].user_id \in 1..Len(users')
    /\ \A i \in 1..Len(moods') : moods'[i].user_id \in 1..Len(users')

\* a record is saved only while the session that creates it holds "user"
SavedWhileLoggedIn ==
    (Len(chats') > Len(chats) \/ Len(alerts') > Len(alerts))
    => \E s \in 1..Len(sub) :
          /\ sub'[s].pc # sub[s].pc
          /\ session[sub[s].client] # NoUser

(* C10 as written: a request to a protected route without "user" in the     *)
(* session is redirected to login and persists nothing; the session holds   *)
(* "user" only between a successful login and the next logout; every        *)
(* record carries the user_id of the user logged in on the session that     *)
(* created it; and no record is created by a session after logout until it  *)
(* logs in again.                                                          *)
C10_NoRecordAfterLogout ==
    [][GuardHolds /\ SessionHolds /\ OwnerHolds /\ SavedWhileLoggedIn]_vars

(* C10, amended: as above, but what holds after logout is that no request   *)
(* of the session is admitted to a protected handler until it logs in       *)
(* again; a chat POST admitted before the logout still saves its remaining  *)
(* records, under the user_id it was admitted with.                         *)
C10_SessionGuard ==
    [][GuardHolds /\ SessionHolds /\ OwnerHolds]_vars

C10_Witness ==
    \E s \in 1..Len(sub) :
        /\ sub[s].pc = "done"
        /\ sub[s].user_id = 2
        /\ session[sub[s].client] = 1
        /\ resp = "login"

=============================================================================
